---- MODULE Spec2Model ----
(***************************************************************************)
(* Sea Salt and Paper calculator: the scoring engine of src/index.ts.      *)
(*                                                                         *)
(* Points are kept in HALF points (the shark and swimmer evaluators emit   *)
(* num_pairs / 2): a value p of the source is the integer 2 * p here, so   *)
(* Whole(7) is the source's 7 and an odd value is a source value that is   *)
(* not an integer.                                                         *)
(*                                                                         *)
(* A JavaScript object with string keys (the result of getColorFrequency)  *)
(* is a sequence of [color, count] entries in insertion order, which is    *)
(* the order Object.entries enumerates.                                    *)
(***************************************************************************)
EXTENDS Integers, Sequences, FiniteSets, TLC

VARIABLES
    pc,                 \* "start", then "scored" after a call of turn, "evaluated" after a direct evaluator call, "matched" after a call of getByLevenshteinDistance
    sharksAndSwimmers,  \* the module-level cache: Null (the source's null) or <<shark_hand, shark_played, swimmer_hand, swimmer_played>>
    hand,               \* the hand list: the parsed hand file, the argument of the last call of turn
    played,             \* the played list, likewise
    state_changes,      \* the per-name records of the last call of turn
    summary,            \* what the last call of turn returned (NoSummary before it)
    evalName,           \* the card name whose evaluator is applied directly
    evalCards,          \* the card list it is applied to
    evalResult,         \* what it returned (NoResult before the call)
    repeated,           \* history: the last call of turn had the arguments of the call before it
    candidate,          \* the string getByLevenshteinDistance is called with, a sequence of characters
    possible_values,    \* the list of strings it is called with
    matchResult,        \* what the call did: it returned { value, distance } or it threw (NoMatch before the call)
    calls               \* history: the calls of getSharksAndSwimmers in the last call of turn or of an evaluator, in order

vars == <<pc, sharksAndSwimmers, hand, played, state_changes, summary,
          evalName, evalCards, evalResult, repeated,
          candidate, possible_values, matchResult, calls>>

\* the source's null, for the cache
Null == <<>>

\* no card name
NoName == "none"

\* the value of a result variable before there is a result
NoSummary == [effects |-> {}, points |-> 0, color_frequency |-> <<>>]
NoResult == [points |-> 0, effects |-> <<>>]
NoMatch == [status |-> "none", value |-> <<>>, distance |-> 0]

\* a source value of n whole points
Whole(n) == n * 2

\* num_pairs / 2 of the source
HalfOf(n) == n

Min(a, b) == IF a <= b THEN a ELSE b

----------------------------------------------------------------------------
(* the fuzzy match of parse_csv; a string is a sequence of characters *)

\* levenshtein.get(a, b): the least number of insertions, deletions and
\* substitutions of one character that turn a into b
RECURSIVE Levenshtein(_, _)
Levenshtein(a, b) ==
    IF a = <<>> THEN Len(b)
    ELSE IF b = <<>> THEN Len(a)
    ELSE IF Head(a) = Head(b) THEN Levenshtein(Tail(a), Tail(b))
    ELSE 1 + Min(Levenshtein(Tail(a), Tail(b)),
                 Min(Levenshtein(Tail(a), b), Levenshtein(a, Tail(b))))

\* the value that is kept when r is at distance d
Kept(result, r, d) == IF d < result.distance THEN [value |-> r, distance |-> d] ELSE result

\* mutant: a value at the distance of the kept one replaces it
Closer_OrEqual(result, c, r) ==
    IF Levenshtein(c, r) <= result.distance
    THEN [value |-> r, distance |-> Levenshtein(c, r)]
    ELSE result

\* one pass of the for loop of getByLevenshteinDistance
Closer(result, c, r) == Kept(result, r, Levenshtein(c, r))

RECURSIVE ClosestFrom(_, _, _)
ClosestFrom(result, c, rest) ==
    IF rest = <<>> THEN result
    ELSE ClosestFrom(Closer(result, c, Head(rest)), c, Tail(rest))

\* throw new Error('possible_values may not be empty')
Thrown == [status |-> "threw", value |-> <<>>, distance |-> 0]

\* return result
Found(result) == [status |-> "returned", value |-> result.value, distance |-> result.distance]

getByLevenshteinDistance(c, values) ==
    IF Len(values) = 0 THEN Thrown
    ELSE Found(ClosestFrom([value |-> Head(values), distance |-> Levenshtein(c, Head(values))],
                           c, Tail(values)))

----------------------------------------------------------------------------
(* data.ts *)

card_names == << "crab", "boat", "fish", "swimmer", "shark", "mermaid", "shell",
                 "octopus", "penguin", "sailor", "lighthouse", "shoal of fish",
                 "penguin colony", "captain" >>

colors == << "dark blue", "light blue", "black", "yellow", "light green", "white",
             "purple", "light grey", "light orange", "light pink", "orange" >>

CardName == {card_names[i] : i \in DOMAIN card_names}

Color == {colors[i] : i \in DOMAIN colors}

----------------------------------------------------------------------------
(* the advisory strings *)

CrabEffect == "[If they play 2 crab cards] The player chooses a discard pile, consults it without shuffling it, and chooses a card from it to add to their hand. They do not have to show it to the other players"

BoatEffect == "[If they play 2 boat cards] The player immediately takes another turn"

FishEffect == "[If they play 2 fish cards] The player adds the top card from the deck to their hand."

StealEffect == "[If they play a pair of shark, swimmer cards] The player steals a random card from another player and adds it to their hand."

MermaidWinEffect == "If they place 4 mermaid cards, the player immediately wins the game"

RoundEndEffect == "If the player has reached 7 points or more by counting the points on their cards, both in their hand and in front of them (see Card Details), they can decide to end the round"

----------------------------------------------------------------------------
(* helpers over card lists *)

\* cards.filter(({ name }) => name === n)
FilterByName(cards, n) == SelectSeq(cards, LAMBDA c : c.name = n)

\* .reduce((acc, { state }) => { acc[state] += 1 ... }, { hand: 0, played: 0 })
CountStates(own) ==
    [hand   |-> Cardinality({i \in DOMAIN own : own[i].state = "hand"}),
     played |-> Cardinality({i \in DOMAIN own : own[i].state = "played"})]

getCardsByName(n, cards) == CountStates(FilterByName(cards, n))

\* cards.filter(({ name }) => name === n).length
CountByName(cards, n) == Len(FilterByName(cards, n))

\* Array.prototype.at(i) || 0 : a negative index counts from the end, an index
\* out of range is undefined, and undefined (and 0) fall through to 0
AtOrZero(scaling, i) ==
    LET k == IF i < 0 THEN Len(scaling) + i ELSE i
    IN  IF k >= 0 /\ k < Len(scaling) THEN scaling[k + 1] ELSE 0

\* mutant: a color that is new is entered with a count of 0
ColorFrequencyStep_FromZero(accumulator, color) ==
    IF \E i \in DOMAIN accumulator : accumulator[i].color = color
    THEN [i \in DOMAIN accumulator |->
            IF accumulator[i].color = color
            THEN [accumulator[i] EXCEPT !.count = @ + 1]
            ELSE accumulator[i]]
    ELSE Append(accumulator, [color |-> color, count |-> 0])

\* one step of getColorFrequency's reduce
ColorFrequencyStep(accumulator, color) ==
    IF \E i \in DOMAIN accumulator : accumulator[i].color = color
    THEN [i \in DOMAIN accumulator |->
            IF accumulator[i].color = color
            THEN [accumulator[i] EXCEPT !.count = @ + 1]
            ELSE accumulator[i]]
    ELSE Append(accumulator, [color |-> color, count |-> 1])

RECURSIVE ColorFrequencyFrom(_, _)
ColorFrequencyFrom(accumulator, cards) ==
    IF cards = <<>> THEN accumulator
    ELSE ColorFrequencyFrom(ColorFrequencyStep(accumulator, Head(cards).color), Tail(cards))

getColorFrequency(cards) == ColorFrequencyFrom(<<>>, cards)

----------------------------------------------------------------------------
(* the shared shark/swimmer cache *)

\* the flatMap over ['shark', 'swimmer']
FlatCounts(shark, swimmer) == <<shark.hand, shark.played, swimmer.hand, swimmer.played>>

\* the scan of the card list
ScanSharksAndSwimmers(cards) ==
    FlatCounts(getCardsByName("shark", cards), getCardsByName("swimmer", cards))

\* the call returns v and leaves v in the module variable; scanned tells
\* whether it went through the card list
Returning(v, scanned) == [value |-> v, cache |-> v, scanned |-> scanned]

\* mutant: the call returns the cached counts and then refreshes the cache
getSharksAndSwimmers_Refreshing(cache, cards) ==
    IF cache = Null
    THEN Returning(ScanSharksAndSwimmers(cards), TRUE)
    ELSE [value |-> cache, cache |-> ScanSharksAndSwimmers(cards), scanned |-> TRUE]

\* mutant: every call scans the card list and overwrites the module variable
getSharksAndSwimmers_Rescanning(cache, cards) ==
    Returning(ScanSharksAndSwimmers(cards), TRUE)

\* mutant: the counts of the scan are returned and not kept
getSharksAndSwimmers_Unstored(cache, cards) ==
    IF cache = Null
    THEN [value |-> ScanSharksAndSwimmers(cards), cache |-> Null, scanned |-> TRUE]
    ELSE Returning(cache, FALSE)

\* getSharksAndSwimmers(cards) called with the module variable holding cache:
\* value is what the call returns, cache is what the module variable holds after it
getSharksAndSwimmers(cache, cards) ==
    IF cache = Null
    THEN Returning(ScanSharksAndSwimmers(cards), TRUE)
    ELSE Returning(cache, FALSE)

----------------------------------------------------------------------------
(* the evaluators: each returns the source's { points, effects }, the value *)
(* the module variable sharksAndSwimmers holds after the call, and the      *)
(* calls of getSharksAndSwimmers it made                                    *)

\* the record of a call of getSharksAndSwimmers
CallOf(got) == [scanned |-> got.scanned, value |-> got.value]

\* mutant: the effect is given for any pair, also one that is not in the hand
DuoResult_AnyPair(effect, c, cache) ==
    [points  |-> Whole((c.hand + c.played) \div 2),
     effects |-> IF (c.hand + c.played) \div 2 # 0 THEN <<effect>> ELSE <<>>,
     cache   |-> cache,
     calls   |-> <<>>]

\* mutant: the played cards are subtracted from the cards in hand
DuoResult_Minus(effect, c, cache) ==
    [points  |-> Whole((c.hand - c.played) \div 2),
     effects |-> IF c.hand \div 2 # 0 THEN <<effect>> ELSE <<>>,
     cache   |-> cache,
     calls   |-> <<>>]

\* the body of a duo evaluator, c being the hand and played counts of its name
DuoResult(effect, c, cache) ==
    [points  |-> Whole((c.hand + c.played) \div 2),
     effects |-> IF c.hand \div 2 # 0 THEN <<effect>> ELSE <<>>,
     cache   |-> cache,
     calls   |-> <<>>]

\* Duo cards (crab, boat, fish)
evalDuoCard(name, effect, cards, cache) ==
    DuoResult(effect, getCardsByName(name, cards), cache)

\* mutant: the pairs are counted over the hand alone
PairResult_HandOnly(got) ==
    [points  |-> HalfOf(Min(got.value[1], got.value[3])),
     effects |-> IF got.value[1] >= 1 /\ got.value[3] >= 1 THEN <<StealEffect>> ELSE <<>>,
     cache   |-> got.cache,
     calls   |-> <<CallOf(got)>>]

\* mutant: the steal effect is given for a shark and a swimmer anywhere
PairResult_AnyState(got) ==
    LET shark_hand     == got.value[1]
        shark_played   == got.value[2]
        swimmer_hand   == got.value[3]
        swimmer_played == got.value[4]
        num_pairs == Min(shark_hand + shark_played, swimmer_hand + swimmer_played)
    IN  [points  |-> HalfOf(num_pairs),
         effects |-> IF num_pairs >= 1 THEN <<StealEffect>> ELSE <<>>,
         cache   |-> got.cache,
         calls   |-> <<CallOf(got)>>]

\* the body of swimmer.eval and shark.eval after the call of getSharksAndSwimmers
PairResult(got) ==
    LET shark_hand     == got.value[1]
        shark_played   == got.value[2]
        swimmer_hand   == got.value[3]
        swimmer_played == got.value[4]
        num_pairs == Min(shark_hand + shark_played, swimmer_hand + swimmer_played)
    IN  [points  |-> HalfOf(num_pairs),
         effects |-> IF shark_hand >= 1 /\ swimmer_hand >= 1 THEN <<StealEffect>> ELSE <<>>,
         cache   |-> got.cache,
         calls   |-> <<CallOf(got)>>]

\* swimmer.eval and shark.eval: the two bodies are the same text
evalSharkSwimmer(cards, cache) == PairResult(getSharksAndSwimmers(cache, cards))

\* mutant: the color that is added is not recorded as visited
MermaidStep_Unvisited(st, cards_by_color) ==
    LET open == {j \in DOMAIN cards_by_color : cards_by_color[j].color \notin st.visited_colors}
    IN  IF open = {} THEN st
        ELSE LET j == CHOOSE k \in open : \A l \in open : k <= l
             IN  [points         |-> st.points + Whole(cards_by_color[j].count),
                  visited_colors |-> st.visited_colors]

\* one pass of the outer for loop of mermaid.eval: the first entry of
\* cards_by_color that is not visited is added and visited
MermaidStep(st, cards_by_color) ==
    LET open == {j \in DOMAIN cards_by_color : cards_by_color[j].color \notin st.visited_colors}
    IN  IF open = {} THEN st
        ELSE LET j == CHOOSE k \in open : \A l \in open : k <= l
             IN  [points         |-> st.points + Whole(cards_by_color[j].count),
                  visited_colors |-> st.visited_colors \cup {cards_by_color[j].color}]

RECURSIVE MermaidLoop(_, _, _, _)
MermaidLoop(i, total, st, cards_by_color) ==
    IF i < total
    THEN MermaidLoop(i + 1, total, MermaidStep(st, cards_by_color), cards_by_color)
    ELSE st

\* mutant: the win advisory is given for four mermaids or more
evalMermaid_AtLeast(cards, cache) ==
    LET total == CountByName(cards, "mermaid")
        cards_by_color == getColorFrequency(SelectSeq(cards, LAMBDA c : c.name # "mermaid"))
        st == MermaidLoop(0, total, [points |-> 0, visited_colors |-> {}], cards_by_color)
    IN  [points  |-> st.points,
         effects |-> IF total >= 4 THEN <<MermaidWinEffect>> ELSE <<>>,
         cache   |-> cache,
         calls   |-> <<>>]

\* mutant: with four mermaids the colors are not allocated
evalMermaid_WinOnly(cards, cache) ==
    LET total == CountByName(cards, "mermaid")
        cards_by_color == getColorFrequency(SelectSeq(cards, LAMBDA c : c.name # "mermaid"))
        st == MermaidLoop(0, total, [points |-> 0, visited_colors |-> {}], cards_by_color)
    IN  [points  |-> IF total = 4 THEN 0 ELSE st.points,
         effects |-> IF total = 4 THEN <<MermaidWinEffect>> ELSE <<>>,
         cache   |-> cache,
         calls   |-> <<>>]

\* mermaid.eval
evalMermaid(cards, cache) ==
    LET total == CountByName(cards, "mermaid")
        cards_by_color == getColorFrequency(SelectSeq(cards, LAMBDA c : c.name # "mermaid"))
        st == MermaidLoop(0, total, [points |-> 0, visited_colors |-> {}], cards_by_color)
    IN  [points  |-> st.points,
         effects |-> IF total = 4 THEN <<MermaidWinEffect>> ELSE <<>>,
         cache   |-> cache,
         calls   |-> <<>>]

\* Collector cards (shell, octopus, penguin, sailor)
evalCollectorCard(name, scaling, cards, cache) ==
    LET total == CountByName(cards, name)
    IN  [points  |-> Whole(AtOrZero(scaling, total - 1)),
         effects |-> <<>>,
         cache   |-> cache,
         calls   |-> <<>>]

\* mutant: the cards that are counted are those in the hand
evalPointMultiplierCard_HandOnly(name, factor, cards, cache) ==
    LET total == getCardsByName(name, cards).hand
    IN  [points  |-> Whole(total * factor),
         effects |-> <<>>,
         cache   |-> cache,
         calls   |-> <<>>]

\* Point multiplier cards: name is the card that is counted
evalPointMultiplierCard(name, factor, cards, cache) ==
    LET total == CountByName(cards, name)
    IN  [points  |-> Whole(total * factor),
         effects |-> <<>>,
         cache   |-> cache,
         calls   |-> <<>>]

ShellScaling == <<0, 2, 4, 6, 8, 10>>
OctopusScaling == <<0, 3, 6, 9, 12>>
PenguinScaling == <<1, 3, 5>>
SailorScaling == <<0, 5>>

\* card_types[name].eval(cards)
card_types(name, cards, cache) ==
    CASE name = "crab"           -> evalDuoCard("crab", CrabEffect, cards, cache)
      [] name = "boat"           -> evalDuoCard("boat", BoatEffect, cards, cache)
      [] name = "fish"           -> evalDuoCard("fish", FishEffect, cards, cache)
      [] name = "swimmer"        -> evalSharkSwimmer(cards, cache)
      [] name = "shark"          -> evalSharkSwimmer(cards, cache)
      [] name = "mermaid"        -> evalMermaid(cards, cache)
      [] name = "shell"          -> evalCollectorCard("shell", ShellScaling, cards, cache)
      [] name = "octopus"        -> evalCollectorCard("octopus", OctopusScaling, cards, cache)
      [] name = "penguin"        -> evalCollectorCard("penguin", PenguinScaling, cards, cache)
      [] name = "sailor"         -> evalCollectorCard("sailor", SailorScaling, cards, cache)
      [] name = "lighthouse"     -> evalPointMultiplierCard("boat", 1, cards, cache)
      [] name = "shoal of fish"  -> evalPointMultiplierCard("fish", 1, cards, cache)
      [] name = "penguin colony" -> evalPointMultiplierCard("penguin", 2, cards, cache)
      [] name = "captain"        -> evalPointMultiplierCard("sailor", 3, cards, cache)

----------------------------------------------------------------------------
(* turn *)

\* the accumulator after the evaluator of name returned r
Visited(accumulator, name, r) ==
    [visited       |-> accumulator.visited \cup {name},
     state_changes |-> Append(accumulator.state_changes,
                              [name |-> name, points |-> r.points, effects |-> r.effects]),
     cache         |-> r.cache,
     calls         |-> accumulator.calls \o r.calls]

\* mutant: the visited set is not consulted, every card is evaluated
VisitCard_NoDedup(accumulator, currentValue, cards) ==
    Visited(accumulator, currentValue.name, card_types(currentValue.name, cards, accumulator.cache))

\* one step of the first reduce of turn: a name seen before is skipped, a new
\* name is evaluated against the full list
VisitCard(accumulator, currentValue, cards) ==
    IF currentValue.name \in accumulator.visited THEN accumulator
    ELSE Visited(accumulator, currentValue.name,
                 card_types(currentValue.name, cards, accumulator.cache))

RECURSIVE VisitFrom(_, _, _)
VisitFrom(accumulator, rest, cards) ==
    IF rest = <<>> THEN accumulator
    ELSE VisitFrom(VisitCard(accumulator, Head(rest), cards), Tail(rest), cards)

\* the second reduce of turn: effects are united, points are summed
RECURSIVE SumStateChanges(_, _)
SumStateChanges(acc, rest) ==
    IF rest = <<>> THEN acc
    ELSE SumStateChanges(
            [effects |-> acc.effects \cup {Head(rest).effects[i] : i \in DOMAIN Head(rest).effects},
             points  |-> acc.points + Head(rest).points],
            Tail(rest))

\* mutant: the advisory needs more than 7 points
WithRoundEnd_Strict(effects, points) ==
    IF points > Whole(7) THEN effects \cup {RoundEndEffect} ELSE effects

\* the round-end advisory of turn
WithRoundEnd(effects, points) ==
    IF points >= Whole(7) THEN effects \cup {RoundEndEffect} ELSE effects

\* what turn returns, with the records and the cache it leaves
Returns(cards, visit, total) ==
    [effects         |-> WithRoundEnd(total.effects, total.points),
     points          |-> total.points,
     color_frequency |-> getColorFrequency(cards),
     state_changes   |-> visit.state_changes,
     cache           |-> visit.cache,
     calls           |-> visit.calls]

\* turn after its first reduce
Summed(cards, visit) ==
    Returns(cards, visit, SumStateChanges([effects |-> {}, points |-> 0], visit.state_changes))

\* turn after const cards = [...hand, ...played]
Scored(cards, cache) ==
    Summed(cards, VisitFrom([visited |-> {}, state_changes |-> <<>>, cache |-> cache, calls |-> <<>>],
                            cards, cards))

\* turn(hand, played) called with the module variable holding cache
turn(h, p, cache) == Scored(h \o p, cache)

\* the TurnSummary the caller receives
TurnSummary(t) == [effects |-> t.effects, points |-> t.points, color_frequency |-> t.color_frequency]

----------------------------------------------------------------------------
(* the inputs: bounded sets of hand and played lists *)

MaxSame == 7            \* cards in a list of one card name
MaxPair == 4            \* cards in a list of two related card names
MaxCards == 3           \* cards in a list over all card names
MaxMermaidCards == 5    \* cards in a list of mermaids and colored cards
NumColors == 3          \* colors of the colored cards
MaxWordLen == 1         \* characters in a possible value
MaxCandidateLen == 2    \* characters in a string that is matched
MaxValues == 3          \* strings in a list of possible values
MaxLongLived == 2       \* sharks and swimmers in a list scored by a process that calls turn repeatedly

\* a line of a csv file after normalisation: a card without its state
Face(n, c) == [name |-> n, color |-> c]

\* parse_csv tags every card of a file with the state of that file
Tag(faces, state) ==
    [i \in DOMAIN faces |-> [name |-> faces[i].name, color |-> faces[i].color, state |-> state]]

\* the first i cards of the list l are the hand file, the rest the played file
SplitAt(l, i) == [hand |-> SubSeq(l, 1, i), played |-> SubSeq(l, i + 1, Len(l))]

\* the cards of one card name
SameNameDeck(name) == {Face(name, colors[1])}

PairedNames == { <<"shark", "swimmer">>, <<"lighthouse", "boat">>, <<"shoal of fish", "fish">>,
                 <<"penguin colony", "penguin">>, <<"captain", "sailor">> }

\* the cards of two related card names
PairDeck(pn) == {Face(pn[1], colors[1]), Face(pn[2], colors[1])}

\* a card of every card name
MixedDeck == {Face(name, colors[1]) : name \in CardName}

\* the mermaid and crabs of the first NumColors colors
MermaidDeck == {Face("mermaid", "white")} \cup {Face("crab", colors[i]) : i \in 1..NumColors}

\* mermaids of two colors and a crab of the color of one of them
ColoredMermaidDeck == {Face("mermaid", "white"), Face("mermaid", colors[1]), Face("crab", colors[1])}

SharkSwimmerDeck == {Face("shark", colors[1]), Face("swimmer", colors[1])}

\* hands worth 0, 6 and 7 points, held next to the sharks and swimmers
ScoringGroups ==
    { <<>>,
      <<Face("octopus", colors[1]), Face("octopus", colors[1]), Face("octopus", colors[1])>>,
      <<Face("penguin", colors[1]), Face("penguin", colors[1]), Face("penguin colony", colors[1])>> }

\* the combined list of turn: const cards = [...hand, ...played]
CardsOf(in) == Tag(in.hand, "hand") \o Tag(in.played, "played")

----------------------------------------------------------------------------
(* the program *)

\* the state at load: the cache is null, nothing is scored; hand and played
\* hold the parsed csv files
Loaded(in) ==
    /\ pc = "start"
    /\ sharksAndSwimmers = Null
    /\ hand = Tag(in.hand, "hand")
    /\ played = Tag(in.played, "played")
    /\ state_changes = <<>>
    /\ summary = NoSummary
    /\ evalName = NoName
    /\ evalCards = <<>>
    /\ evalResult = NoResult
    /\ repeated = FALSE
    /\ candidate = <<>>
    /\ possible_values = <<>>
    /\ matchResult = NoMatch
    /\ calls = <<>>

\* the two files hold up to max cards of a deck
LoadedFrom(deck, max) ==
    \E n \in 0..max : \E l \in [1..n -> deck] : \E i \in 0..n : Loaded(SplitAt(l, i))

Init ==
    \/ \E name \in CardName : LoadedFrom(SameNameDeck(name), MaxSame)
    \/ \E pn \in PairedNames : LoadedFrom(PairDeck(pn), MaxPair)
    \/ LoadedFrom(MixedDeck, MaxCards)
    \/ LoadedFrom(MermaidDeck, MaxMermaidCards)
    \/ LoadedFrom(ColoredMermaidDeck, MaxMermaidCards)

\* the state after a call turn(h, p) that returned t
Returned(h, p, t) ==
    /\ hand' = h
    /\ played' = p
    /\ state_changes' = t.state_changes
    /\ summary' = TurnSummary(t)
    /\ sharksAndSwimmers' = t.cache
    /\ pc' = "scored"
    /\ repeated' = (pc = "scored" /\ h = hand /\ p = played)
    /\ calls' = t.calls
    /\ UNCHANGED <<evalName, evalCards, evalResult, candidate, possible_values, matchResult>>

\* a call turn(h, p)
TurnCall(h, p) == Returned(h, p, turn(h, p, sharksAndSwimmers))

\* the program as index.ts runs it: one call of turn per process, on the two files
Turn ==
    /\ pc = "start"
    /\ TurnCall(hand, played)

Next == Turn

Spec == Init /\ [][Next]_vars

\* a long-lived process: the files hold sharks and swimmers next to a scoring
\* group; after the first call the files are edited (or not) and turn is called again
LongLivedInput(g, in) == [hand |-> g \o in.hand, played |-> in.played]

InitLongLived ==
    \E g \in ScoringGroups : \E n \in 0..MaxLongLived : \E l \in [1..n -> SharkSwimmerDeck] :
        \E i \in 0..n : Loaded(LongLivedInput(g, SplitAt(l, i)))

TurnWith(in) == TurnCall(Tag(in.hand, "hand"), Tag(in.played, "played"))

TurnAgain ==
    /\ pc = "scored"
    /\ \E g \in ScoringGroups : \E n \in 0..MaxLongLived : \E l \in [1..n -> SharkSwimmerDeck] :
          \E i \in 0..n : TurnWith(LongLivedInput(g, SplitAt(l, i)))

NextLongLived == Turn \/ TurnAgain

SpecLongLived == InitLongLived /\ [][NextLongLived]_vars

\* one evaluator applied to one card list in a fresh process
LoadedEval(name, cards) ==
    /\ pc = "start"
    /\ sharksAndSwimmers = Null
    /\ hand = <<>>
    /\ played = <<>>
    /\ state_changes = <<>>
    /\ summary = NoSummary
    /\ evalName = name
    /\ evalCards = cards
    /\ evalResult = NoResult
    /\ repeated = FALSE
    /\ candidate = <<>>
    /\ possible_values = <<>>
    /\ matchResult = NoMatch
    /\ calls = <<>>

\* the evaluator of name and a list of up to max cards of a deck
LoadedEvalFrom(name, deck, max) ==
    \E n \in 0..max : \E l \in [1..n -> deck] : \E i \in 0..n :
        LoadedEval(name, CardsOf(SplitAt(l, i)))

InitEval ==
    \/ \E name \in CardName : \E other \in CardName : LoadedEvalFrom(name, SameNameDeck(other), MaxSame)
    \/ \E name \in CardName : \E pn \in PairedNames : LoadedEvalFrom(name, PairDeck(pn), MaxPair)
    \/ LoadedEvalFrom("mermaid", MermaidDeck, MaxMermaidCards)
    \/ LoadedEvalFrom("mermaid", ColoredMermaidDeck, MaxMermaidCards)

\* the state after the evaluator returned r
Evaluated(r) ==
    /\ pc' = "evaluated"
    /\ evalResult' = [points |-> r.points, effects |-> r.effects]
    /\ sharksAndSwimmers' = r.cache
    /\ calls' = r.calls
    /\ UNCHANGED <<hand, played, state_changes, summary, evalName, evalCards, repeated,
                   candidate, possible_values, matchResult>>

ApplyEval ==
    /\ pc = "start"
    /\ Evaluated(card_types(evalName, evalCards, sharksAndSwimmers))

NextEval == ApplyEval

SpecEval == InitEval /\ [][NextEval]_vars

\* the characters of the strings that are matched
Alphabet == {"a", "b"}

\* the strings of up to max characters
Words(max) == UNION {[1..k -> Alphabet] : k \in 0..max}

\* getByLevenshteinDistance applied to one string and one list in a fresh process
LoadedMatch(c, values) ==
    /\ pc = "start"
    /\ sharksAndSwimmers = Null
    /\ hand = <<>>
    /\ played = <<>>
    /\ state_changes = <<>>
    /\ summary = NoSummary
    /\ evalName = NoName
    /\ evalCards = <<>>
    /\ evalResult = NoResult
    /\ repeated = FALSE
    /\ candidate = c
    /\ possible_values = values
    /\ matchResult = NoMatch
    /\ calls = <<>>

InitMatch ==
    \E n \in 0..MaxValues : \E values \in [1..n -> Words(MaxWordLen)] :
        \E c \in Words(MaxCandidateLen) : LoadedMatch(c, values)

\* the call getByLevenshteinDistance(candidate, possible_values)
Match ==
    /\ pc = "start"
    /\ pc' = "matched"
    /\ matchResult' = getByLevenshteinDistance(candidate, possible_values)
    /\ UNCHANGED <<sharksAndSwimmers, hand, played, state_changes, summary, evalName, evalCards,
                   evalResult, repeated, candidate, possible_values, calls>>

NextMatch == Match

SpecMatch == InitMatch /\ [][NextMatch]_vars

----------------------------------------------------------------------------
(* what the claims speak about *)

Cards == hand \o played

\* the cards of a name in a list, by state
NumIn(cards, n, st) == Cardinality({i \in DOMAIN cards : cards[i].name = n /\ cards[i].state = st})

NumOf(cards, n) == Cardinality({i \in DOMAIN cards : cards[i].name = n})

\* the records turn made for a name, and the points they hold
RecordsOf(n) == {i \in DOMAIN state_changes : state_changes[i].name = n}

RECURSIVE SumPoints(_)
SumPoints(I) ==
    IF I = {} THEN 0
    ELSE LET i == CHOOSE k \in I : TRUE IN state_changes[i].points + SumPoints(I \ {i})

PointsOf(n) == SumPoints(RecordsOf(n))

\* the cards of a color among the cards that are not mermaids
ColorCount(cards, c) ==
    Cardinality({i \in DOMAIN cards : cards[i].name # "mermaid" /\ cards[i].color = c})

\* the sum of the k largest per-color counts over the colors S
RECURSIVE SumOfLargest(_, _, _)
SumOfLargest(cards, S, k) ==
    IF k = 0 \/ S = {} THEN 0
    ELSE LET c == CHOOSE x \in S : \A y \in S : ColorCount(cards, x) >= ColorCount(cards, y)
         IN  ColorCount(cards, c) + SumOfLargest(cards, S \ {c}, k - 1)

ColorsIn(cards) == {c \in Color : ColorCount(cards, c) > 0}

\* how often a string is in a list of effects
TimesIn(effects, e) == Cardinality({i \in DOMAIN effects : effects[i] = e})

\* a list without its i-th element, and with x put after its j-th
Without(l, i) == SubSeq(l, 1, i - 1) \o SubSeq(l, i + 1, Len(l))

PutAfter(l, j, x) == SubSeq(l, 1, j) \o <<x>> \o SubSeq(l, j + 1, Len(l))

InState(c, st) == [c EXCEPT !.state = st]

----------------------------------------------------------------------------
(* C1 *)

\* C1: the TurnSummary of every pass is the summary the same hand and played
\* lists yield as the first pass of a fresh process.
C1_PassIndependent ==
    pc = "scored" => summary = TurnSummary(turn(hand, played, Null))

(* C2 *)

\* C2: with m # 4 mermaids, the mermaid evaluator returns the sum of the
\* min(m, d) largest per-color counts of the non-mermaid cards.
C2_DescendingFrequency ==
    (pc = "evaluated" /\ evalName = "mermaid" /\ NumOf(evalCards, "mermaid") # 4)
        => evalResult.points =
             Whole(SumOfLargest(evalCards, ColorsIn(evalCards), NumOf(evalCards, "mermaid")))

(* C3 *)

CollectorTable(n) ==
    CASE n = "shell" -> <<0, 2, 4, 6, 8, 10>>
      [] n = "octopus" -> <<0, 3, 6, 9, 12>>
      [] n = "penguin" -> <<1, 3, 5>>
      [] n = "sailor" -> <<0, 5>>

\* C3: a collector evaluator returns table[t-1] for 1 <= t <= table length and
\* 0 for every other count t of its name, t = 0 included.
C3_CollectorTable ==
    (pc = "evaluated" /\ evalName \in {"shell", "octopus", "penguin", "sailor"})
        => LET t == NumOf(evalCards, evalName)
               table == CollectorTable(evalName)
           IN  evalResult.points = Whole(IF 1 <= t /\ t <= Len(table) THEN table[t] ELSE 0)

(* C4 *)

\* C4: moving one card from the hand to the played list, or back, leaves the
\* points of a pass that starts with an empty cache unchanged.
C4_HandOrPlayed ==
    pc = "scored" =>
        /\ \A i \in DOMAIN hand : \A j \in 0..Len(played) :
              turn(Without(hand, i), PutAfter(played, j, InState(hand[i], "played")), Null).points
                = summary.points
        /\ \A i \in DOMAIN played : \A j \in 0..Len(hand) :
              turn(PutAfter(hand, j, InState(played[i], "hand")), Without(played, i), Null).points
                = summary.points

(* C5 *)

\* C5: in a pass that starts with an empty cache the shark and swimmer
\* evaluators together give min(sharks, swimmers) points, an evaluator that is
\* not invoked giving none, and each invoked one gives half of that minimum.
C5_SharkSwimmerSum ==
    pc = "scored" =>
        LET pairs == Min(NumOf(Cards, "shark"), NumOf(Cards, "swimmer"))
        IN  /\ PointsOf("shark") + PointsOf("swimmer") = Whole(pairs)
            /\ \A i \in RecordsOf("shark") \cup RecordsOf("swimmer") :
                  state_changes[i].points * 2 = Whole(pairs)

\* sharks and swimmers in unequal numbers, some of them played, both evaluated
C5_Witness ==
    /\ pc = "scored"
    /\ NumOf(Cards, "shark") = 3
    /\ NumIn(Cards, "swimmer", "played") = 1
    /\ NumIn(Cards, "swimmer", "hand") = 0
    /\ NumIn(Cards, "shark", "played") = 2
    /\ PointsOf("shark") + PointsOf("swimmer") = Whole(1)

(* C6 *)

DuoEffect(n) ==
    CASE n = "crab" -> CrabEffect
      [] n = "boat" -> BoatEffect
      [] n = "fish" -> FishEffect

\* C6: a duo evaluator returns floor((h + p) / 2) points, and its effects hold
\* the pair effect of its name once if h >= 2 and nothing otherwise.
C6_DuoPoints ==
    (pc = "evaluated" /\ evalName \in {"crab", "boat", "fish"})
        => LET h == NumIn(evalCards, evalName, "hand")
               p == NumIn(evalCards, evalName, "played")
           IN  /\ evalResult.points = Whole((h + p) \div 2)
               /\ evalResult.effects = IF h >= 2 THEN <<DuoEffect(evalName)>> ELSE <<>>
               /\ TimesIn(evalResult.effects, DuoEffect(evalName)) = (IF h >= 2 THEN 1 ELSE 0)

\* one boat in hand and one played: the pair scores and gives no effect
C6_Witness ==
    /\ pc = "evaluated"
    /\ evalName = "boat"
    /\ NumIn(evalCards, "boat", "hand") = 1
    /\ NumIn(evalCards, "boat", "played") = 1
    /\ evalResult.points = Whole(1)
    /\ evalResult.effects = <<>>

(* C7 *)

\* C7: the points of every pass are an integer, whatever passes ran before.
C7_IntegerPoints ==
    pc = "scored" => summary.points % 2 = 0

(* C8 *)

\* C8: a call of turn with the hand and played lists of the call before it
\* returns the TurnSummary that call returned.
C8_Idempotent ==
    [][(pc = "scored" /\ hand' = hand /\ played' = played) => summary' = summary]_vars

\* a repeated call that scored a shark against counts cached from other cards
C8_Witness ==
    /\ repeated
    /\ NumOf(Cards, "shark") >= 1
    /\ sharksAndSwimmers # Null
    /\ sharksAndSwimmers # ScanSharksAndSwimmers(Cards)

(* C9 *)

\* C9: in one pass the evaluator of a card name is invoked once if the name is
\* in hand or played and not at all otherwise, and the points of the pass are
\* the points of the invoked evaluators.
C9_OncePerName ==
    pc = "scored" =>
        /\ \A n \in CardName :
              Cardinality(RecordsOf(n)) = (IF NumOf(Cards, n) >= 1 THEN 1 ELSE 0)
        /\ summary.points = SumPoints(DOMAIN state_changes)
        /\ (NumOf(Cards, "lighthouse") = 0 /\ DOMAIN state_changes = RecordsOf("boat"))
              => summary.points = Whole(NumOf(Cards, "boat") \div 2)

\* five cards of one name across hand and played, evaluated once
C9_Witness ==
    /\ pc = "scored"
    /\ NumIn(Cards, "boat", "hand") = 3
    /\ NumIn(Cards, "boat", "played") = 2
    /\ Len(state_changes) = 1
    /\ summary.points = Whole(2)

(* C10 *)

\* C10: the effects of a pass hold the round-end advisory iff its points are
\* at least 7.
C10_RoundEnd ==
    pc = "scored" => ((RoundEndEffect \in summary.effects) <=> (summary.points >= Whole(7)))

\* seven and a half points, with the advisory
C10_Witness ==
    /\ pc = "scored"
    /\ summary.points = Whole(7) + 1
    /\ RoundEndEffect \in summary.effects

(* C11 *)

\* C11: the effects of the mermaid evaluator, and so the effects of the pass,
\* hold the immediate-win advisory iff hand and played together hold exactly
\* four mermaids, whatever the colors of the cards.
C11_FourMermaids ==
    pc = "scored" =>
        /\ (MermaidWinEffect \in summary.effects) <=> (NumOf(Cards, "mermaid") = 4)
        /\ \A i \in RecordsOf("mermaid") :
              state_changes[i].effects =
                  (IF NumOf(Cards, "mermaid") = 4 THEN <<MermaidWinEffect>> ELSE <<>>)
        /\ \A i \in DOMAIN state_changes :
              state_changes[i].name # "mermaid"
                  => TimesIn(state_changes[i].effects, MermaidWinEffect) = 0

\* four mermaids of two colors split over hand and played, next to a crab of
\* the color of one of them
C11_Witness ==
    /\ pc = "scored"
    /\ NumIn(Cards, "mermaid", "hand") = 2
    /\ NumIn(Cards, "mermaid", "played") = 2
    /\ \E i, j, k \in DOMAIN Cards :
          /\ Cards[i].name = "mermaid" /\ Cards[i].color = "white"
          /\ Cards[j].name = "mermaid" /\ Cards[j].color = colors[1]
          /\ Cards[k].name = "crab" /\ Cards[k].color = colors[1]
    /\ MermaidWinEffect \in summary.effects

(* C12 *)

\* the cards that are not mermaids
NumOthers(cards) == Len(cards) - NumOf(cards, "mermaid")

\* C12: the points of the mermaid evaluator are the counts of min(m, d)
\* different colors of the cards that are not mermaids, a color of a mermaid
\* counting for nothing: they never exceed the number of those cards, and
\* equal it when there are at least as many mermaids as colors.
C12_OneColorPerMermaid ==
    (pc = "evaluated" /\ evalName = "mermaid")
        => LET m == NumOf(evalCards, "mermaid")
               d == Cardinality(ColorsIn(evalCards))
           IN  /\ \E S \in SUBSET ColorsIn(evalCards) :
                     /\ Cardinality(S) = Min(m, d)
                     /\ evalResult.points = Whole(SumOfLargest(evalCards, S, Cardinality(S)))
               /\ evalResult.points <= Whole(NumOthers(evalCards))
               /\ m >= d => evalResult.points = Whole(NumOthers(evalCards))

\* three mermaids, one of the color of the two crabs: that color is counted
\* once, for the crabs alone, and two mermaids add nothing
C12_Witness ==
    /\ pc = "evaluated"
    /\ evalName = "mermaid"
    /\ NumOf(evalCards, "mermaid") = 3
    /\ NumOf(evalCards, "crab") = 2
    /\ Cardinality(ColorsIn(evalCards)) = 1
    /\ \E i, k \in DOMAIN evalCards :
          /\ evalCards[i].name = "mermaid"
          /\ evalCards[k].name = "crab"
          /\ evalCards[i].color = evalCards[k].color
    /\ evalResult.points = Whole(2)

(* C13 *)

\* the card a multiplier counts, and the points it gives for each
Multiplied(n) ==
    CASE n = "lighthouse" -> [name |-> "boat", factor |-> 1]
      [] n = "shoal of fish" -> [name |-> "fish", factor |-> 1]
      [] n = "penguin colony" -> [name |-> "penguin", factor |-> 2]
      [] n = "captain" -> [name |-> "sailor", factor |-> 3]

\* C13: a multiplier evaluator returns its factor times the number of cards
\* of the name it refers to in hand and played, however many copies of the
\* multiplier the list holds, none included.
C13_Multiplier ==
    (pc = "evaluated" /\ evalName \in {"lighthouse", "shoal of fish", "penguin colony", "captain"})
        => /\ evalResult.points =
                 Whole(Multiplied(evalName).factor * NumOf(evalCards, Multiplied(evalName).name))
           /\ evalResult.effects = <<>>

\* a captain with three sailors, two of them played: 9 points
C13_Witness ==
    /\ pc = "evaluated"
    /\ evalName = "captain"
    /\ NumOf(evalCards, "captain") = 1
    /\ NumIn(evalCards, "sailor", "hand") = 1
    /\ NumIn(evalCards, "sailor", "played") = 2
    /\ evalResult.points = Whole(9)

(* C14 *)

\* a shark and a swimmer are both in the hand
StealPossible(cards) == NumIn(cards, "shark", "hand") >= 1 /\ NumIn(cards, "swimmer", "hand") >= 1

\* C14: in a pass that starts with an empty cache the shark evaluator and the
\* swimmer evaluator each give the steal advisory, the same string, iff the
\* hand holds a shark and a swimmer, and the effects of the pass then hold it
\* once.
C14_StealAdvisory ==
    pc = "scored" =>
        /\ \A i \in RecordsOf("shark") \cup RecordsOf("swimmer") :
              state_changes[i].effects = (IF StealPossible(Cards) THEN <<StealEffect>> ELSE <<>>)
        /\ (StealEffect \in summary.effects) <=> StealPossible(Cards)
        /\ Cardinality({e \in summary.effects : e = StealEffect})
              = (IF StealPossible(Cards) THEN 1 ELSE 0)

\* a shark and a swimmer in the hand, a second swimmer played: both
\* evaluators give the advisory, the pass holds it once
C14_Witness ==
    /\ pc = "scored"
    /\ NumIn(Cards, "shark", "hand") = 1
    /\ NumIn(Cards, "swimmer", "hand") = 1
    /\ NumIn(Cards, "swimmer", "played") = 1
    /\ \A i \in RecordsOf("shark") \cup RecordsOf("swimmer") :
          state_changes[i].effects = <<StealEffect>>
    /\ Cardinality(RecordsOf("shark") \cup RecordsOf("swimmer")) = 2
    /\ summary.effects = {StealEffect}

(* C15 *)

\* the cards of a color, mermaids included
NumOfColor(cards, c) == Cardinality({i \in DOMAIN cards : cards[i].color = c})

\* the entries of a color in a frequency table
EntriesOf(table, c) == {i \in DOMAIN table : table[i].color = c}

RECURSIVE SumCounts(_, _)
SumCounts(table, I) ==
    IF I = {} THEN 0
    ELSE LET i == CHOOSE k \in I : TRUE IN table[i].count + SumCounts(table, I \ {i})

\* C15: color_frequency maps every color of a card in hand or played,
\* mermaids included, to the number of cards of that color, has no entry for
\* any other color, and its counts add up to the number of cards.
C15_ColorFrequency ==
    pc = "scored" =>
        /\ \A c \in Color :
              IF NumOfColor(Cards, c) = 0
              THEN EntriesOf(summary.color_frequency, c) = {}
              ELSE /\ Cardinality(EntriesOf(summary.color_frequency, c)) = 1
                   /\ \A i \in EntriesOf(summary.color_frequency, c) :
                         summary.color_frequency[i].count = NumOfColor(Cards, c)
        /\ \A i \in DOMAIN summary.color_frequency :
              summary.color_frequency[i].color \in Color /\ summary.color_frequency[i].count >= 1
        /\ SumCounts(summary.color_frequency, DOMAIN summary.color_frequency) = Len(Cards)

\* a white mermaid, and a mermaid and two crabs of the first color: two
\* entries, the first color counted three times
C15_Witness ==
    /\ pc = "scored"
    /\ Len(Cards) = 4
    /\ NumOf(Cards, "mermaid") = 2
    /\ NumOf(Cards, "crab") = 2
    /\ NumOfColor(Cards, "white") = 1
    /\ Len(summary.color_frequency) = 2
    /\ \E i \in DOMAIN summary.color_frequency :
          summary.color_frequency[i] = [color |-> colors[1], count |-> 3]

(* C16 *)

\* C16: the points an evaluator returns are never negative, whatever its
\* name and the list, a list without a card of that name included.
C16_NonNegative ==
    pc = "evaluated" => evalResult.points >= 0

\* the octopus evaluator on a list of crabs, none of them an octopus
C16_Witness ==
    /\ pc = "evaluated"
    /\ evalName = "octopus"
    /\ NumOf(evalCards, "octopus") = 0
    /\ NumIn(evalCards, "crab", "played") = 2
    /\ evalResult.points >= 0

(* C17 *)

\* C17: with exactly four mermaids the mermaid evaluator gives the
\* immediate-win advisory and allocates no color: it returns 0 points.
C17_NoAllocation ==
    (pc = "evaluated" /\ evalName = "mermaid" /\ NumOf(evalCards, "mermaid") = 4)
        => /\ evalResult.effects = <<MermaidWinEffect>>
           /\ evalResult.points = 0

\* C17, amended: with exactly four mermaids the mermaid evaluator gives the
\* immediate-win advisory and allocates the colors as for any other number of
\* mermaids: it returns the counts of min(4, d) different colors, which is
\* every card that is not a mermaid when those cards have at most four colors.
C17_AllocationAtFour ==
    (pc = "evaluated" /\ evalName = "mermaid" /\ NumOf(evalCards, "mermaid") = 4)
        => /\ evalResult.effects = <<MermaidWinEffect>>
           /\ \E S \in SUBSET ColorsIn(evalCards) :
                 /\ Cardinality(S) = Min(4, Cardinality(ColorsIn(evalCards)))
                 /\ evalResult.points = Whole(SumOfLargest(evalCards, S, Cardinality(S)))
           /\ Cardinality(ColorsIn(evalCards)) <= 4
                 => evalResult.points = Whole(NumOthers(evalCards))

\* four mermaids and a crab: the advisory and one point
C17_Witness ==
    /\ pc = "evaluated"
    /\ evalName = "mermaid"
    /\ NumOf(evalCards, "mermaid") = 4
    /\ NumOf(evalCards, "crab") = 1
    /\ evalResult.effects = <<MermaidWinEffect>>
    /\ evalResult.points = Whole(1)

(* C18 *)

\* the four counts a scan of the cards yields
CountsOf(cards) ==
    << NumIn(cards, "shark", "hand"), NumIn(cards, "shark", "played"),
       NumIn(cards, "swimmer", "hand"), NumIn(cards, "swimmer", "played") >>

\* C18: in a pass that starts with an empty cache the card list is scanned
\* for sharks and swimmers at most once: the first of the two evaluators to
\* run scans it, the other one is handed the kept counts, and both are handed
\* the same four counts, those of the cards of the pass.
C18_ScannedOnce ==
    pc = "scored" =>
        /\ Len(calls) = Cardinality(RecordsOf("shark") \cup RecordsOf("swimmer"))
        /\ Cardinality({i \in DOMAIN calls : calls[i].scanned}) <= 1
        /\ \A i \in DOMAIN calls : calls[i].scanned <=> (i = 1)
        /\ \A i, j \in DOMAIN calls : calls[i].value = calls[j].value
        /\ \A i \in DOMAIN calls : calls[i].value = CountsOf(Cards)

\* a swimmer ahead of the sharks: its evaluator scans, the shark evaluator
\* is handed the same counts without a scan
C18_Witness ==
    /\ pc = "scored"
    /\ Len(Cards) >= 3
    /\ Cards[1].name = "swimmer"
    /\ NumOf(Cards, "shark") = 2
    /\ Len(calls) = 2
    /\ calls[1].scanned /\ ~calls[2].scanned
    /\ calls[2].value = calls[1].value
    /\ calls[1].value = CountsOf(Cards)

(* C19 *)

\* C19: called with a list that is not empty, getByLevenshteinDistance
\* returns a value of the list at the least edit distance from the candidate,
\* the first such value in the order of the list, with that distance; called
\* with an empty list it throws and returns nothing.
C19_ClosestFirst ==
    pc = "matched" =>
        IF possible_values = <<>>
        THEN matchResult.status = "threw"
        ELSE /\ matchResult.status = "returned"
             /\ \E k \in DOMAIN possible_values :
                   /\ matchResult.value = possible_values[k]
                   /\ matchResult.distance = Levenshtein(candidate, possible_values[k])
                   /\ \A j \in DOMAIN possible_values :
                         Levenshtein(candidate, possible_values[j]) >= matchResult.distance
                   /\ \A j \in 1..(k - 1) :
                         Levenshtein(candidate, possible_values[j]) > matchResult.distance

\* three values, the second and the third different and equally close, the
\* first one farther: the second is returned
C19_Witness ==
    /\ pc = "matched"
    /\ Len(possible_values) = 3
    /\ possible_values[2] # possible_values[3]
    /\ Levenshtein(candidate, possible_values[2]) = 1
    /\ Levenshtein(candidate, possible_values[3]) = 1
    /\ Levenshtein(candidate, possible_values[1]) = 2
    /\ matchResult = [status |-> "returned", value |-> possible_values[2], distance |-> 1]

(* C20 *)

\* a list with its i-th and j-th elements exchanged
Swapped(l, i, j) == [l EXCEPT ![i] = l[j], ![j] = l[i]]

\* C20: the points of a pass that starts with an empty cache are those of
\* every pass on the same cards in another order within the hand and within
\* the played list (every reordering is a chain of exchanges of two cards).
C20_OrderIndependent ==
    pc = "scored" =>
        /\ \A i, j \in DOMAIN hand :
              turn(Swapped(hand, i, j), played, Null).points = summary.points
        /\ \A i, j \in DOMAIN played :
              turn(hand, Swapped(played, i, j), Null).points = summary.points

(* C21 *)

====
